---- MODULE Spec2Model ----
(***************************************************************************)
(* Model of the media-processing server of heepov/Public-Speaking-Assistant*)
(*                                                                         *)
(*   Spec     src/app/main.py: the submission endpoint, the background     *)
(*            tasks and the task table read by the status endpoint.        *)
(*   SvcSpec  src/app/features/transcription/service.py: one run of        *)
(*            TranscriptionService.transcribe_file with its callbacks.     *)
(*   MsSpec   src/app/features/transcription/microservice.py: concurrent   *)
(*            POST /transcribe requests on the shared service object.      *)
(*   FnSpec   service.py: _detect_pauses, _create_simple_word_alignment    *)
(*            and _format_transcription_result applied to bounded sets of  *)
(*            arguments.                                                   *)
(*   ApiSpec  src/app/main.py: Spec with the requests to the status and    *)
(*            the download endpoints.                                      *)
(*                                                                         *)
(* The server is a single asyncio event loop: a coroutine runs without     *)
(* interruption from one suspension point (a network call, an aiofiles     *)
(* call) to the next, so each action below is one such stretch of code.    *)
(*                                                                         *)
(* Python values: a str is a tuple of text pieces (concatenation is \o),   *)
(* an Optional value is <<>> for None and <<v>> for the value v, a dict is *)
(* a function from its keys.  Cyrillic literals are transliterated.        *)
(***************************************************************************)
EXTENDS Integers, Sequences, FiniteSets, TLC

VARIABLES
    clock,          \* datetime.now() at the resolution of one second
    starlette_str,  \* whether the installed starlette defines HTTPException.__str__
    task_statuses,  \* main.py:63  task_id -> status record
    upload_dir,     \* settings.UPLOAD_DIR: file name -> number of the submission that wrote it
    output_dir,     \* settings.OUTPUT_DIR: the set of <<task_id, kind>> files present
    bg,             \* the background executions, one per accepted submission
    svc,            \* one run of TranscriptionService.transcribe_file
    ms,             \* the transcription microservice: its service object and its requests
    call            \* one call of a function of the service, with its arguments

vars == <<clock, starlette_str, task_statuses, upload_dir, output_dir, bg, svc, ms, call>>

main_vars == <<clock, starlette_str, task_statuses, upload_dir, output_dir, bg>>

---------------------------------------------------------------------------
(* Bounds of the model *)

MaxSubmissions == 2     \* accepted submissions in one behaviour
MaxClock == 1           \* the clock runs over the seconds 0..MaxClock

---------------------------------------------------------------------------
(* Python values *)

None == <<>>

Some(v) == <<v>>

\* dict.update(patch): a shallow merge of patch into d
Update(d, patch) ==
    [k \in DOMAIN d \cup DOMAIN patch |-> IF k \in DOMAIN patch THEN patch[k] ELSE d[k]]

\* d[key] = value on a dict d
SetItem(d, key, value) ==
    [k \in DOMAIN d \cup {key} |-> IF k = key THEN value ELSE d[k]]

---------------------------------------------------------------------------
(* src/app/core/config.py *)

SUPPORTED_VIDEO_FORMATS == {".mp4", ".avi", ".mov", ".mkv", ".wmv", ".flv", ".webm"}

SUPPORTED_AUDIO_FORMATS == {".mp3", ".wav", ".flac", ".m4a", ".aac", ".ogg", ".wma"}

ALL_SUPPORTED_FORMATS == SUPPORTED_VIDEO_FORMATS \cup SUPPORTED_AUDIO_FORMATS

---------------------------------------------------------------------------
(* File names.  A name is a tuple of pieces: single characters and, last,  *)
(* the extension.                                                          *)

Extensions == {".wav", ".mp4", ".exe"}

\* the characters [^\w\-_\.] of sanitize_filename's first pattern
UnsafeChars == {" ", "#"}

RawNames == { <<"a", ".wav">>, <<" ", "a", ".wav">>, <<"b", ".mp4">>, <<"a", ".exe">> }

\* re.sub(r'[^\w\-_\.]', '_', filename)
ReplaceUnsafe(name) == [i \in 1..Len(name) |-> IF name[i] \in UnsafeChars THEN "_" ELSE name[i]]

\* re.sub(r'_+', '_', sanitized)
RECURSIVE CollapseUnderscores(_)
CollapseUnderscores(name) ==
    IF Len(name) <= 1 THEN name
    ELSE IF name[1] = "_" /\ name[2] = "_" THEN CollapseUnderscores(Tail(name))
    ELSE <<name[1]>> \o CollapseUnderscores(Tail(name))

\* sanitized.strip('_')
RECURSIVE StripUnderscores(_)
StripUnderscores(name) ==
    IF name = <<>> THEN name
    ELSE IF name[1] = "_" THEN StripUnderscores(Tail(name))
    ELSE IF name[Len(name)] = "_" THEN StripUnderscores(SubSeq(name, 1, Len(name) - 1))
    ELSE name

sanitize_filename(filename) == StripUnderscores(CollapseUnderscores(ReplaceUnsafe(filename)))

\* Path(original_filename).suffix.lower()
Suffix(name) ==
    IF name # <<>> /\ name[Len(name)] \in Extensions /\ Len(name) > 1 THEN name[Len(name)] ELSE ""

\* f"task_{datetime.now().strftime('%Y%m%d_%H%M%S')}_{safe_filename}": the id is
\* made of the second of the submission and the sanitized name, nothing else
MakeTaskId(now, safe_filename) == [stamp |-> now, name |-> safe_filename]

---------------------------------------------------------------------------
(* Exceptions and their str() *)

HTTPException(status_code, detail) ==
    [type |-> "HTTPException", status_code |-> status_code, detail |-> detail]

\* any other exception class, built from its message
Exc(type, message) == [type |-> type, status_code |-> 0, detail |-> message]

\* str(e).  main.py builds every HTTPException with keyword arguments, so its
\* args are empty: str(e) is "" unless starlette defines __str__, which gives
\* "<status_code>: <detail>".  str(KeyError(k)) is repr(k).
PyStr(e) ==
    CASE e.type = "HTTPException" ->
            IF starlette_str THEN <<ToString(e.status_code), ": ">> \o e.detail ELSE <<>>
      [] e.type = "KeyError" -> <<"'">> \o e.detail \o <<"'">>
      [] OTHER -> e.detail

---------------------------------------------------------------------------
(* What the HTTP exchange with a microservice can come to.  The microservice *)
(* is another process behind a URL: its answer is an input of main.py.      *)

\* the body of the 500 answer of microservice.py:217-224 for the exception text m
MicroserviceErrorText(m) == <<"{status: error, message: Transcription failed: ">> \o m \o <<"}">>

\* microservice.py:170 calls a method service.py does not define
AttributeErrorText == <<"'TranscriptionService' object has no attribute 'is_audio_file'">>

Exchange(kind, status_code, keys, text) ==
    [kind |-> kind, status_code |-> status_code, keys |-> keys, text |-> text]

\* kind "ok": status 200 and a JSON object with the keys `keys`;
\* kind "status": another status, with the body `text`;
\* kind "timeout": httpx.TimeoutException; kind "error": any other exception
\* of the exchange, with the message `text`.
TranscriptionExchanges ==
    { Exchange("ok", 200, {"simple_text", "detailed_text"}, <<>>),
      Exchange("ok", 200, {"simple_text"}, <<>>),
      Exchange("ok", 200, {"status", "task_id", "filename", "model_used", "device_used", "result"}, <<>>),
      Exchange("status", 500, {}, MicroserviceErrorText(AttributeErrorText)),
      Exchange("timeout", 0, {}, <<"timed out">>),
      Exchange("error", 0, {}, <<"All connection attempts failed">>) }

ConverterExchanges ==
    { Exchange("ok", 200, {"audio_file"}, <<>>),
      Exchange("ok", 200, {"status"}, <<>>),
      Exchange("status", 500, {}, <<"{detail: Conversion failed}">>),
      Exchange("timeout", 0, {}, <<"timed out">>) }

\* The outcome of a call: what it returns, or the exception it raises; `cause`
\* is the message of the exception first raised inside the call.
Returned(keys) == [raised |-> FALSE, keys |-> keys, exc |-> Exc("", <<>>), cause |-> <<>>]

Raised(exc, cause) == [raised |-> TRUE, keys |-> {}, exc |-> exc, cause |-> cause]

\* a call that lets the exception of the exchange through as it is
WrapTranscriptionError_Unwrapped(x) ==
    Exc("Exception", IF x.kind = "status"
                     THEN <<"Oshibka mikroservisa transkripcii: ">> \o x.text ELSE x.text)

\* main.py:120-123 and 126-128: the exception a failed exchange is turned into
WrapTranscriptionError(x) ==
    CASE x.kind = "timeout" ->
            HTTPException(408, <<"Taymaut mikroservisa transkripcii">>)
      [] x.kind = "status" ->
            HTTPException(500, <<"Oshibka vyzova mikroservisa transkripcii: ">>
                \o PyStr(HTTPException(x.status_code,
                        <<"Oshibka mikroservisa transkripcii: ">> \o x.text)))
      [] OTHER ->
            HTTPException(500, <<"Oshibka vyzova mikroservisa transkripcii: ">> \o x.text)

\* the message of the exception first raised inside call_transcription_service
TranscriptionCause(x) ==
    IF x.kind = "status" THEN <<"Oshibka mikroservisa transkripcii: ">> \o x.text ELSE x.text

\* main.py:104-128
call_transcription_service(x) ==
    IF x.kind = "ok" THEN Returned(x.keys)
    ELSE Raised(WrapTranscriptionError(x), TranscriptionCause(x))

\* main.py:168-176
WrapConverterError(x) ==
    CASE x.kind = "timeout" ->
            HTTPException(408, <<"Taymaut mikroservisa konvertacii">>)
      [] x.kind = "status" ->
            HTTPException(500, <<"Oshibka vyzova mikroservisa konvertacii: ">>
                \o PyStr(HTTPException(x.status_code,
                        <<"Oshibka mikroservisa konvertacii: ">> \o x.text)))
      [] OTHER ->
            HTTPException(500, <<"Oshibka vyzova mikroservisa konvertacii: ">> \o x.text)

\* the message of the exception first raised inside call_video_converter_service
ConverterCause(x) ==
    IF x.kind = "status" THEN <<"Oshibka mikroservisa konvertacii: ">> \o x.text ELSE x.text

\* main.py:152-176
call_video_converter_service(x) ==
    IF x.kind = "ok" THEN Returned(x.keys)
    ELSE Raised(WrapConverterError(x), ConverterCause(x))

\* open(file_path, 'rb') on a file that is gone (main.py:111, 159)
FileNotFound(name) == Exchange("error", 0, {}, <<"[Errno 2] No such file or directory: ">> \o name)

\* an aiofiles call that fails while the outputs are written (main.py:340-344)
DiskError == Exc("OSError", <<"[Errno 28] No space left on device">>)

---------------------------------------------------------------------------
(* The task table (main.py:63) and the two background tasks *)

EmptyDict == [k \in {} |-> None]

\* a record that starts at the first checkpoint
InitialRecord_Started(message) ==
    [status |-> "processing", progress |-> 10, message |-> message,
     logs |-> <<>>, error |-> None, result_file |-> None]

\* main.py:303-310 and 381-388
InitialRecord(message) ==
    [status |-> "processing", progress |-> 0, message |-> message,
     logs |-> <<>>, error |-> None, result_file |-> None]

\* add_log, main.py:312-320 and 390-398 (the timestamp of an entry is left out)
add_log(ts, task_id, level, message) ==
    [ts EXCEPT ![task_id] =
        Update(@, [logs |-> Append(@.logs, [level |-> level, message |-> message])])]

\* task_statuses[task_id].update(patch)
update_task(ts, task_id, patch) == [ts EXCEPT ![task_id] = Update(@, patch)]

\* main.py:349-355
CompletedPatch(task_id) ==
    [status |-> "completed", progress |-> 100, message |-> "Transkripciya zavershena!",
     simple_file |-> Some([task_id |-> task_id, kind |-> "simple"]),
     detailed_file |-> Some([task_id |-> task_id, kind |-> "detailed"])]

\* main.py:417-422: results.get("audio_file") is None when the key is missing
VideoCompletedPatch(task_id, keys) ==
    [status |-> "completed", progress |-> 100, message |-> "Konvertaciya zavershena!",
     audio_file |-> IF "audio_file" \in keys
                    THEN Some([task_id |-> task_id, kind |-> "audio"]) ELSE None]

\* a failure update that leaves progress alone
FailedPatch_KeepsProgress(e) ==
    [status |-> "failed", message |-> "Oshibka pri obrabotke", error |-> Some(PyStr(e))]

\* main.py:360-365 and 427-432
FailedPatch(e) ==
    [status |-> "failed", progress |-> 0, message |-> "Oshibka pri obrabotke",
     error |-> Some(PyStr(e))]

\* an except clause that logs the error and does not update the record
HandleTranscriptionError_LogsOnly(ts, task_id, e) ==
    add_log(ts, task_id, "ERROR", <<"Oshibka pri transkripcii: ">> \o PyStr(e))

\* the except clause, main.py:357-365
HandleTranscriptionError(ts, task_id, e) ==
    update_task(add_log(ts, task_id, "ERROR", <<"Oshibka pri transkripcii: ">> \o PyStr(e)),
                task_id, FailedPatch(e))

\* the except clause, main.py:424-432
HandleConversionError(ts, task_id, e) ==
    update_task(add_log(ts, task_id, "ERROR", <<"Oshibka pri konvertacii: ">> \o PyStr(e)),
                task_id, FailedPatch(e))

\* a finally clause that also reports the deletion in the record's message
Cleanup_SetsMessage(ts, ud, task_id, file_path) ==
    IF file_path \notin DOMAIN ud THEN [ts |-> ts, ud |-> ud]
    ELSE [ts |-> update_task(add_log(ts, task_id, "INFO", <<"Vremennyy fayl udalen">>),
                             task_id, [message |-> "Vremennyy fayl udalen"]),
          ud |-> [n \in DOMAIN ud \ {file_path} |-> ud[n]]]

\* a finally clause that also forgets the record of the task
Cleanup_DropsRecord(ts, ud, task_id, file_path) ==
    [ts |-> [t \in DOMAIN ts \ {task_id} |-> ts[t]],
     ud |-> [n \in DOMAIN ud \ {file_path} |-> ud[n]]]

\* the finally clause, main.py:367-374 and 434-441: the table and the upload
\* directory after it.  file_path.unlink() is taken to succeed on a file that
\* exists (the WARNING branch of lines 373-374 and 440-441 is not modelled).
Cleanup(ts, ud, task_id, file_path) ==
    IF file_path \notin DOMAIN ud THEN [ts |-> ts, ud |-> ud]
    ELSE [ts |-> add_log(ts, task_id, "INFO", <<"Vremennyy fayl udalen">>),
          ud |-> [n \in DOMAIN ud \ {file_path} |-> ud[n]]]

---------------------------------------------------------------------------
(* A background execution: BackgroundTasks.add_task(...) of one accepted   *)
(* submission.  pc is the suspension point the coroutine waits at.         *)
(*   cause, cause_in: the message of the exception that ended it, and      *)
(*   whether it was raised inside the microservice call or by the task.    *)
(*   seen: the progress values GET /status could return for its task_id    *)
(*   from its start to its end.                                            *)
(*   created: the record as the task stored it when it started (None       *)
(*   before that); terminal: the record as its last update() left it,      *)
(*   before the finally clause ran (None while the task runs).             *)

NewExecution(task_id, file_path, feature) ==
    [task_id |-> task_id, file_path |-> file_path, feature |-> feature,
     pc |-> "scheduled", keys |-> {}, outcome |-> "", cause |-> <<>>, cause_in |-> "",
     seen |-> <<>>, created |-> None, terminal |-> None]

\* the execution has stored its record, main.py:303-310 and 381-388
Created(e, ts) == [bg EXCEPT ![e].created = Some(ts[bg[e].task_id])]

Executions == 1..Len(bg)

\* what the status endpoint can read once this step is over
Observe(bg2, ts2) ==
    [f \in 1..Len(bg2) |->
        IF /\ bg2[f].pc # "scheduled"
           /\ (f \in Executions => bg[f].pc # "done")
           /\ bg2[f].task_id \in DOMAIN ts2
           /\ (bg2[f].seen = <<>>
                 \/ bg2[f].seen[Len(bg2[f].seen)] # ts2[bg2[f].task_id].progress)
        THEN [bg2[f] EXCEPT !.seen = Append(@, ts2[bg2[f].task_id].progress)]
        ELSE bg2[f]]

\* the execution ends: its except clause (when exc is raised) and its finally clause
Finish(b, e, ts, outcome, cause, cause_in) ==
    LET c == Cleanup(ts, upload_dir, bg[e].task_id, bg[e].file_path)
    IN  /\ task_statuses' = c.ts
        /\ upload_dir' = c.ud
        /\ bg' = Observe([b EXCEPT ![e].pc = "done", ![e].outcome = outcome,
                                   ![e].cause = cause, ![e].cause_in = cause_in,
                                   ![e].terminal = Some(ts[bg[e].task_id])], c.ts)

\* a status endpoint that answers with a fresh record for an id it does not know
get_task_status_Default(task_id) ==
    IF task_id \notin DOMAIN task_statuses
    THEN [status_code |-> 200, body |-> InitialRecord("")]
    ELSE [status_code |-> 200, body |-> task_statuses[task_id]]

\* GET /status/{task_id}, main.py:444-459
get_task_status(task_id) ==
    IF task_id \notin DOMAIN task_statuses
    THEN [status_code |-> 404, body |-> EmptyDict]
    ELSE [status_code |-> 200, body |-> task_statuses[task_id]]

\* what POST /process answers, main.py:239-253, 286-296
ProcessFileStatus(filename, feature, save_ok) ==
    IF Suffix(filename) \notin ALL_SUPPORTED_FORMATS THEN 400
    ELSE IF feature \notin {"video-to-audio", "transcription"} THEN 400
    ELSE IF ~save_ok THEN 500
    ELSE 200

\* POST /process, main.py:215-296.  Only an accepted submission (answer 200,
\* with the task_id) changes the state: the upload is saved under its sanitized
\* name and the background task is scheduled to run after the answer is sent.
process_file(filename, feature, save_ok) ==
    LET safe_filename == sanitize_filename(filename)
        task_id == MakeTaskId(clock, safe_filename)
    IN  /\ ProcessFileStatus(filename, feature, save_ok) = 200
        /\ Len(bg) < MaxSubmissions
        /\ upload_dir' = SetItem(upload_dir, safe_filename, Len(bg) + 1)
        /\ bg' = Append(bg, NewExecution(task_id, safe_filename, feature))
        /\ UNCHANGED <<clock, starlette_str, task_statuses, output_dir, svc, ms, call>>

\* process_transcription_task up to its first suspension, main.py:299-332 (and
\* 104-115): the record is created here, when the background task starts
TranscriptionTaskStart(e) ==
    /\ bg[e].pc = "scheduled"
    /\ bg[e].feature = "transcription"
    /\ LET task_id == bg[e].task_id
           ts1 == SetItem(task_statuses, task_id, InitialRecord("Nachinaem transkripciyu..."))
           ts2 == add_log(ts1, task_id, "INFO",
                     <<"Otpravlyaem fayl v mikroservis transkripcii: ">> \o bg[e].file_path)
           ts3 == update_task(ts2, task_id,
                     [progress |-> 10,
                      message |-> "Otpravlyaem fayl v mikroservis transkripcii..."])
       IN  IF bg[e].file_path \in DOMAIN upload_dir
           THEN /\ task_statuses' = ts3
                /\ bg' = Observe([Created(e, ts1) EXCEPT ![e].pc = "awaiting"], ts3)
                /\ UNCHANGED upload_dir
           ELSE LET r == call_transcription_service(FileNotFound(bg[e].file_path))
                IN  Finish(Created(e, ts1), e, HandleTranscriptionError(ts3, task_id, r.exc),
                           "failed", r.cause, "call")
    /\ UNCHANGED <<clock, starlette_str, output_dir, svc, ms, call>>

\* the microservice answers (or the exchange fails), main.py:115-128 and 332-334
TranscriptionResponse(e, x) ==
    /\ bg[e].pc = "awaiting"
    /\ bg[e].feature = "transcription"
    /\ LET task_id == bg[e].task_id
           r == call_transcription_service(x)
       IN  IF r.raised
           THEN Finish(bg, e, HandleTranscriptionError(task_statuses, task_id, r.exc),
                       "failed", r.cause, "call")
           ELSE LET ts1 == add_log(task_statuses, task_id, "INFO",
                              <<"Poluchen otvet ot mikroservisa transkripcii">>)
                IN  /\ task_statuses' = ts1
                    /\ bg' = Observe([bg EXCEPT ![e].pc = "persist_simple",
                                                ![e].keys = r.keys], ts1)
                    /\ UNCHANGED upload_dir
    /\ UNCHANGED <<clock, starlette_str, output_dir, svc, ms, call>>

OutputFile(task_id, kind) == [task_id |-> task_id, kind |-> kind]

\* main.py:337-341: open the simple file (which creates it), look the text up, write it
PersistSimple(e, io) ==
    /\ bg[e].pc = "persist_simple"
    /\ LET task_id == bg[e].task_id
       IN  IF io = "open_fails"
           THEN /\ Finish(bg, e, HandleTranscriptionError(task_statuses, task_id, DiskError),
                          "failed", DiskError.detail, "task")
                /\ UNCHANGED output_dir
           ELSE /\ output_dir' = output_dir \cup {OutputFile(task_id, "simple")}
                /\ IF "simple_text" \notin bg[e].keys
                   THEN LET exc == Exc("KeyError", <<"simple_text">>)
                        IN  Finish(bg, e, HandleTranscriptionError(task_statuses, task_id, exc),
                                       "failed", PyStr(exc), "task")
                   ELSE IF io = "write_fails"
                   THEN Finish(bg, e, HandleTranscriptionError(task_statuses, task_id, DiskError),
                               "failed", DiskError.detail, "task")
                   ELSE /\ bg' = Observe([bg EXCEPT ![e].pc = "persist_detailed"], task_statuses)
                        /\ UNCHANGED <<task_statuses, upload_dir>>
    /\ UNCHANGED <<clock, starlette_str, svc, ms, call>>

\* main.py:343-355: the detailed file, then the final update
PersistDetailed(e, io) ==
    /\ bg[e].pc = "persist_detailed"
    /\ LET task_id == bg[e].task_id
       IN  IF io = "open_fails"
           THEN /\ Finish(bg, e, HandleTranscriptionError(task_statuses, task_id, DiskError),
                          "failed", DiskError.detail, "task")
                /\ UNCHANGED output_dir
           ELSE /\ output_dir' = output_dir \cup {OutputFile(task_id, "detailed")}
                /\ IF "detailed_text" \notin bg[e].keys
                   THEN LET exc == Exc("KeyError", <<"detailed_text">>)
                        IN  Finish(bg, e, HandleTranscriptionError(task_statuses, task_id, exc),
                                       "failed", PyStr(exc), "task")
                   ELSE IF io = "write_fails"
                   THEN Finish(bg, e, HandleTranscriptionError(task_statuses, task_id, DiskError),
                               "failed", DiskError.detail, "task")
                   ELSE Finish(bg, e,
                                   update_task(
                                       add_log(task_statuses, task_id, "SUCCESS",
                                               <<"Transkripciya zavershena uspeshno">>),
                                       task_id, CompletedPatch(task_id)),
                                   "completed", <<>>, "")
    /\ UNCHANGED <<clock, starlette_str, svc, ms, call>>

\* process_video_to_audio_task up to its first suspension, main.py:377-410
VideoTaskStart(e) ==
    /\ bg[e].pc = "scheduled"
    /\ bg[e].feature = "video-to-audio"
    /\ LET task_id == bg[e].task_id
           ts1 == SetItem(task_statuses, task_id, InitialRecord("Nachinaem konvertaciyu..."))
           ts2 == add_log(ts1, task_id, "INFO",
                     <<"Otpravlyaem fayl v mikroservis konvertacii: ">> \o bg[e].file_path)
           ts3 == update_task(ts2, task_id,
                     [progress |-> 10,
                      message |-> "Otpravlyaem fayl v mikroservis konvertacii..."])
       IN  IF bg[e].file_path \in DOMAIN upload_dir
           THEN /\ task_statuses' = ts3
                /\ bg' = Observe([Created(e, ts1) EXCEPT ![e].pc = "awaiting"], ts3)
                /\ UNCHANGED upload_dir
           ELSE LET r == call_video_converter_service(FileNotFound(bg[e].file_path))
                IN  Finish(Created(e, ts1), e, HandleConversionError(ts3, task_id, r.exc),
                           "failed", r.cause, "call")
    /\ UNCHANGED <<clock, starlette_str, output_dir, svc, ms, call>>

\* the converter answers (or the exchange fails), main.py:163-176 and 410-432
VideoResponse(e, x) ==
    /\ bg[e].pc = "awaiting"
    /\ bg[e].feature = "video-to-audio"
    /\ LET task_id == bg[e].task_id
           r == call_video_converter_service(x)
       IN  IF r.raised
           THEN Finish(bg, e, HandleConversionError(task_statuses, task_id, r.exc),
                       "failed", r.cause, "call")
           ELSE Finish(bg, e,
                       update_task(
                           add_log(add_log(task_statuses, task_id, "INFO",
                                           <<"Poluchen otvet ot mikroservisa konvertacii">>),
                                   task_id, "SUCCESS", <<"Konvertaciya zavershena uspeshno">>),
                           task_id, VideoCompletedPatch(task_id, r.keys)),
                       "completed", <<>>, "")
    /\ UNCHANGED <<clock, starlette_str, output_dir, svc, ms, call>>

\* a second passes
Tick ==
    /\ clock < MaxClock
    /\ clock' = clock + 1
    /\ UNCHANGED <<starlette_str, task_statuses, upload_dir, output_dir, bg, svc, ms, call>>

---------------------------------------------------------------------------
(* Synthetic word alignment, service.py:423-483.  A text is a tuple of    *)
(* characters; a time is a fraction [num, den] with den > 0.               *)

WordChars == {"h", "i", "a", "b", "_"}      \* \w

SpaceChars == {" "}                         \* \s

IsPunct(c) == c \notin WordChars /\ c \notin SpaceChars

\* text.strip()
RECURSIVE Strip(_)
Strip(text) ==
    IF text = <<>> THEN text
    ELSE IF text[1] \in SpaceChars THEN Strip(Tail(text))
    ELSE IF text[Len(text)] \in SpaceChars THEN Strip(SubSeq(text, 1, Len(text) - 1))
    ELSE text

\* the length of the run of word characters text starts with
RECURSIVE WordRun(_)
WordRun(text) ==
    IF text = <<>> \/ text[1] \notin WordChars THEN 0 ELSE 1 + WordRun(Tail(text))

\* a tokenisation that keeps the words and loses the punctuation marks
RECURSIVE FindTokens_WordsOnly(_)
FindTokens_WordsOnly(text) ==
    IF text = <<>> THEN <<>>
    ELSE IF text[1] \in WordChars
         THEN <<SubSeq(text, 1, WordRun(text))>>
                 \o FindTokens_WordsOnly(SubSeq(text, WordRun(text) + 1, Len(text)))
    ELSE FindTokens_WordsOnly(Tail(text))

\* re.findall(r'\b\w+\b|[^\w\s]', text): each token is a tuple of characters
RECURSIVE FindTokens(_)
FindTokens(text) ==
    IF text = <<>> THEN <<>>
    ELSE IF text[1] \in WordChars
         THEN <<SubSeq(text, 1, WordRun(text))>>
                 \o FindTokens(SubSeq(text, WordRun(text) + 1, Len(text)))
    ELSE IF text[1] \in SpaceChars THEN FindTokens(Tail(text))
    ELSE <<SubSeq(text, 1, 1)>> \o FindTokens(Tail(text))

\* the same nominal duration for every token
NominalDuration_Uniform(word) == 5

\* service.py:451-457, in tenths of a second: 0.1 for a punctuation mark, 0.5 for a word
NominalDuration(word) == IF IsPunct(word[1]) THEN 1 ELSE 5

RECURSIVE SumNominal(_, _)
SumNominal(words, n) == IF n = 0 THEN 0 ELSE NominalDuration(words[n]) + SumNominal(words, n - 1)

Frac(num, den) == [num |-> num, den |-> den]

\* a word list with the nominal durations as they are, not scaled to the segment
SimpleWordList_Unscaled(words, start_time, end_time) ==
    LET At(n) == Frac(start_time * 10 + SumNominal(words, n), 10)
    IN  [i \in 1..Len(words) |-> [word |-> words[i], start |-> At(i - 1), end |-> At(i)]]

\* service.py:447-481: the word list of one segment with at least one token.
\* Word i lasts total_duration * nominal_i / sum(nominal), and starts where
\* word i-1 ends.
SimpleWordList(words, start_time, end_time) ==
    LET total_duration == end_time - start_time
        total_word_duration == SumNominal(words, Len(words))
        At(n) == Frac(start_time * total_word_duration + total_duration * SumNominal(words, n),
                      total_word_duration)
    IN  [i \in 1..Len(words) |-> [word |-> words[i], start |-> At(i - 1), end |-> At(i)]]

\* a pass of the loop that takes the segment's end for its start and its start
\* for its end
AlignSegment_Reversed(segment) ==
    LET words == FindTokens(Strip(segment.text))
    IN  IF words = <<>> THEN segment
        ELSE [segment EXCEPT !.words = Some(SimpleWordList(words, segment.end, segment.start))]

\* service.py:436-481, one pass of the loop: a segment without tokens is left as it is
AlignSegment(segment) ==
    LET words == FindTokens(Strip(segment.text))
    IN  IF words = <<>> THEN segment
        ELSE [segment EXCEPT !.words = Some(SimpleWordList(words, segment.start, segment.end))]

\* a loop that stops at the first segment without tokens instead of skipping it
create_simple_word_alignment_Break(segments) ==
    [i \in 1..Len(segments) |->
        IF \E j \in 1..i : FindTokens(Strip(segments[j].text)) = <<>>
        THEN segments[i]
        ELSE AlignSegment(segments[i])]

\* _create_simple_word_alignment, service.py:423-483
create_simple_word_alignment(segments) == [i \in 1..Len(segments) |-> AlignSegment(segments[i])]

---------------------------------------------------------------------------
(* One run of TranscriptionService.transcribe_file, service.py:289-421.    *)
(* The ASR model, the alignment model, ffmpeg and librosa are inputs.      *)

\* a segment as model.transcribe returns it: it has no 'words' key yet
Segment(text, start, end) == [text |-> text, start |-> start, end |-> end, words |-> None]

AsrResults ==
    { <<>>,
      <<Segment(<<"h", "i", "!">>, 0, 1)>>,
      <<Segment(<<"h", "i", "!">>, 0, 1), Segment(<<" ">>, 1, 2)>>,
      <<Segment(<<" ", "a", " ", "b">>, 2, 4), Segment(<<>>, 4, 4)>> }

\* what whisperx.align gives back: every segment with the word list of the aligner
WhisperxAlign(segments) ==
    [i \in 1..Len(segments) |->
        [segments[i] EXCEPT !.words =
            Some(<<[word |-> Strip(segments[i].text),
                    start |-> Frac(segments[i].start, 1), end |-> Frac(segments[i].end, 1)]>>)]]

PauseLists == { <<>>, <<[start |-> 0, end |-> 1, duration |-> 1]>> }

SvcIdle ==
    [pc |-> "idle", file_extension |-> "", align_model |-> FALSE, log_callback |-> FALSE,
     progress |-> <<>>, logs |-> <<>>, logger |-> <<>>, temp_exists |-> FALSE, used_temp |-> FALSE,
     pauses |-> <<>>, pause_analysis |-> "none", segments |-> <<>>, alignment |-> "none",
     cause |-> <<>>, error |-> None]

\* update_progress, service.py:316-318
update_progress(s, percent) == [s EXCEPT !.progress = Append(@, percent)]

\* a record of a log: the level and the message
LogEntry(level, message) == [level |-> level, message |-> message]

\* log_callback(level, message) when a callback was given: logs is what the
\* callback has received
CallbackLog(logs, log_callback, level, message) ==
    IF log_callback THEN Append(logs, LogEntry(level, message)) ELSE logs

\* log of transcribe_file, service.py:311-314: the callback, when there is one,
\* gets the level; the module's logger gets the message at the level INFO
svc_log(s, level, message) ==
    [s EXCEPT !.logs = CallbackLog(@, s.log_callback, level, message),
              !.logger = Append(@, LogEntry("INFO", message))]

\* log of _detect_pauses, service.py:215-218: the callback, when there is one,
\* gets the level; the message goes to logger.debug, which the module's logger
\* drops, its level being INFO (service.py:20, logger.py:96-109)
pause_log(logs, log_callback, level, message) == CallbackLog(logs, log_callback, level, message)

\* a finally clause that leaves the temporary audio file where it is
SvcFinally_KeepsTemp(s) == s

\* the finally clause, service.py:409-421 (unlink is taken to succeed)
SvcFinally(s) ==
    IF s.used_temp /\ s.temp_exists
    THEN svc_log([s EXCEPT !.temp_exists = FALSE], "INFO", <<"Vremennyy audio fayl udalen">>)
    ELSE s

\* the except clause, service.py:405-407, then the finally clause
SvcRaise(s, m) ==
    SvcFinally([svc_log(s, "ERROR", <<"Oshibka transkripcii: ">> \o m)
                   EXCEPT !.pc = "raised", !.cause = m,
                          !.error = Some(<<"Oshibka transkripcii: ">> \o m)])

\* service.py:320-327
SvcStart(file_extension, align_model, log_callback) ==
    /\ svc.pc = "idle"
    /\ svc' = update_progress(
                 svc_log([svc EXCEPT !.pc = "prepare", !.file_extension = file_extension,
                                     !.align_model = align_model,
                                     !.log_callback = log_callback],
                         "INFO", <<"Nachinaem transkripciyu fayla">>), 10)
    /\ UNCHANGED <<main_vars, ms, call>>

\* service.py:329-342
SvcPrepareAudio(convert_ok) ==
    /\ svc.pc = "prepare"
    /\ svc' =
         IF svc.file_extension \in {".mp4", ".avi", ".mov", ".mkv"}
         THEN LET s1 == [svc_log(svc, "INFO", <<"Konvertiruem video v audio...">>)
                            EXCEPT !.used_temp = TRUE, !.temp_exists = TRUE]
              IN  IF convert_ok
                  THEN update_progress([s1 EXCEPT !.pc = "pauses"], 35)
                  ELSE SvcRaise(s1, <<"Ne udalos konvertirovat video v audio.">>)
         ELSE update_progress(
                  [svc_log(svc, "INFO", <<"Ispolzuem ishodnyy audio fayl">>)
                      EXCEPT !.pc = "pauses"], 35)
    /\ UNCHANGED <<main_vars, ms, call>>

\* service.py:344-347, with _detect_pauses (199-287) as far as its outcome goes:
\* the list it found, or [] with a WARNING when the analysis raised
SvcDetectPauses(analysis_ok, pauses) ==
    /\ svc.pc = "pauses"
    /\ svc' =
         LET DetLog(s, level, message) ==
                 [s EXCEPT !.logs = pause_log(@, s.log_callback, level, message)]
             s1 == DetLog(svc, "INFO", <<"Analiziruem pauzy v audio...">>)
             s2 == IF analysis_ok
                   THEN [DetLog(s1, "INFO", <<"Obnaruzheno pauz">>)
                            EXCEPT !.pauses = pauses, !.pause_analysis = "ok"]
                   ELSE [DetLog(s1, "WARNING", <<"Oshibka pri analize pauz">>)
                            EXCEPT !.pauses = <<>>, !.pause_analysis = "raised"]
         IN  update_progress([s2 EXCEPT !.pc = "load"], 40)
    /\ UNCHANGED <<main_vars, ms, call>>

\* loading the audio without reporting the checkpoint 50
SvcLoadAudio_SkipsCheckpoint(load_ok) ==
    /\ svc.pc = "load"
    /\ svc' =
         IF load_ok
         THEN svc_log([svc EXCEPT !.pc = "asr"], "INFO", <<"Vypolnyaem transkripciyu">>)
         ELSE SvcRaise(svc, <<"Failed to load audio">>)
    /\ UNCHANGED <<main_vars, ms, call>>

\* service.py:349-355
SvcLoadAudio(load_ok) ==
    /\ svc.pc = "load"
    /\ svc' =
         IF load_ok
         THEN svc_log(update_progress([svc EXCEPT !.pc = "asr"], 50),
                      "INFO", <<"Vypolnyaem transkripciyu">>)
         ELSE SvcRaise(svc, <<"Failed to load audio">>)
    /\ UNCHANGED <<main_vars, ms, call>>

\* service.py:357-362
SvcTranscribe(asr_ok, segments) ==
    /\ svc.pc = "asr"
    /\ svc' =
         IF asr_ok
         THEN update_progress([svc EXCEPT !.pc = "align", !.segments = segments], 75)
         ELSE SvcRaise(svc, <<"ASR failed">>)
    /\ UNCHANGED <<main_vars, ms, call>>

\* an alignment step without the try/except of service.py:366-384
SvcAlign_Propagates(align_ok) ==
    /\ svc.pc = "align"
    /\ svc' =
         IF svc.align_model /\ ~align_ok
         THEN SvcRaise(svc_log(svc, "INFO", <<"Vyravnivaem slova po vremennym metkam...">>),
                       <<"alignment failed">>)
         ELSE update_progress(
                  [svc EXCEPT !.pc = "format",
                              !.segments = IF svc.align_model THEN WhisperxAlign(svc.segments)
                                           ELSE create_simple_word_alignment(svc.segments),
                              !.alignment = IF svc.align_model THEN "precise" ELSE "synthetic"],
                  90)
    /\ UNCHANGED <<main_vars, ms, call>>

\* service.py:364-389
SvcAlign(align_ok) ==
    /\ svc.pc = "align"
    /\ svc' =
         LET s1 ==
               IF svc.align_model
               THEN LET t == svc_log(svc, "INFO", <<"Vyravnivaem slova po vremennym metkam...">>)
                    IN  IF align_ok
                        THEN [svc_log(t, "INFO", <<"Vyravnivanie slov zaversheno uspeshno">>)
                                 EXCEPT !.segments = WhisperxAlign(svc.segments),
                                        !.alignment = "precise"]
                        ELSE [svc_log(svc_log(t, "WARNING", <<"Oshibka vyravnivaniya">>),
                                      "INFO", <<"Sozdaem prostuyu razbivku po slovam...">>)
                                 EXCEPT !.segments = create_simple_word_alignment(svc.segments),
                                        !.alignment = "synthetic"]
               ELSE [svc_log(svc, "INFO", <<"Model vyravnivaniya nedostupna">>)
                        EXCEPT !.segments = create_simple_word_alignment(svc.segments),
                               !.alignment = "synthetic"]
         IN  update_progress([s1 EXCEPT !.pc = "format"], 90)
    /\ UNCHANGED <<main_vars, ms, call>>

\* service.py:391-403, then the finally clause
SvcFormat ==
    /\ svc.pc = "format"
    /\ svc' = SvcFinally(svc_log(update_progress([svc EXCEPT !.pc = "returned"], 100),
                                 "INFO", <<"Transkripciya uspeshno zavershena">>))
    /\ UNCHANGED <<main_vars, ms, call>>

SvcNext ==
    \/ \E file_extension \in {".wav", ".mp4"}, align_model \in BOOLEAN,
          log_callback \in BOOLEAN :
            SvcStart(file_extension, align_model, log_callback)
    \/ \E convert_ok \in BOOLEAN : SvcPrepareAudio(convert_ok)
    \/ \E analysis_ok \in BOOLEAN, pauses \in PauseLists : SvcDetectPauses(analysis_ok, pauses)
    \/ \E load_ok \in BOOLEAN : SvcLoadAudio(load_ok)
    \/ \E asr_ok \in BOOLEAN, segments \in AsrResults : SvcTranscribe(asr_ok, segments)
    \/ \E align_ok \in BOOLEAN : SvcAlign(align_ok)
    \/ SvcFormat

---------------------------------------------------------------------------
(* The transcription microservice, microservice.py:130-224: concurrent     *)
(* POST /transcribe requests on the one TranscriptionService object that    *)
(* lifespan() created (microservice.py:27-41).  A model instance is        *)
(* [size, load]: the size it was loaded for and the number of the load.    *)
(* service.py defines neither is_audio_file nor transcribe_audio_file,     *)
(* which the handler calls: they are modelled as the specification         *)
(* describes them (an inference call on the shared model that suspends the *)
(* request without blocking the others).                                    *)

MaxRequests == 2        \* POST /transcribe requests in one behaviour

ModelSizes == {"base", "small"}

MsFileNames == {<<"a", ".wav">>, <<"a", ".exe">>}

\* TranscriptionService() and initialize() at start-up, service.py:26-44 and 89-102
MsIdle ==
    [model_size |-> "base", model |-> [size |-> "base", load |-> 1], loads |-> 1,
     files |-> {}, reqs |-> <<>>]

Requests == 1..Len(ms.reqs)

InFlight(m, r) == m.reqs[r].pc = "inference"

\* the handler ends with an answer
MsAnswer(m, r, status_code) == [m EXCEPT !.reqs[r].pc = "done", !.reqs[r].status_code = status_code]

\* the handler's except clause, microservice.py:207-224: the saved file is
\* removed and the answer is 500
MsFail(m, r) == MsAnswer([m EXCEPT !.files = @ \ {m.reqs[r].filename}], r, 500)

\* microservice.py:148-157: the request arrives; an extension that is not an
\* audio extension is answered 400, otherwise the handler suspends in aiofiles
MsReceive(filename, model_size) ==
    /\ Len(ms.reqs) < MaxRequests
    /\ LET req == [filename |-> filename, model_size |-> model_size,
                   pc |-> IF Suffix(filename) \in SUPPORTED_AUDIO_FORMATS
                          THEN "saving" ELSE "done",
                   status_code |-> IF Suffix(filename) \in SUPPORTED_AUDIO_FORMATS
                                   THEN 0 ELSE 400,
                   model |-> None]
       IN  ms' = [ms EXCEPT !.reqs = Append(@, req)]
    /\ UNCHANGED <<main_vars, svc, call>>

\* TranscriptionService.is_audio_file, called at microservice.py:170
is_audio_file(filename) == Suffix(filename) \in SUPPORTED_AUDIO_FORMATS

\* _load_whisper_model, service.py:129-146: the new instance replaces self.model,
\* or the load raises and self.model stays what it was
load_whisper_model(m, load_ok) ==
    IF load_ok
    THEN [m EXCEPT !.model = [size |-> m.model_size, load |-> m.loads + 1],
                   !.loads = @ + 1]
    ELSE m

\* microservice.py:159-189: the upload is saved; then, without a suspension
\* point, the model is switched when the request names another size
\* (176-181, with initialize of service.py:89-102) and the transcription is
\* started on self.model (186)
MsSaved(r, save_ok, load_ok) ==
    /\ r \in Requests
    /\ ms.reqs[r].pc = "saving"
    /\ ms' =
         IF ~save_ok THEN MsFail(ms, r)
         ELSE LET m1 == [ms EXCEPT !.files = @ \cup {ms.reqs[r].filename}]
              IN  IF ~is_audio_file(ms.reqs[r].filename)
                  THEN MsAnswer(m1, r, 400)
                  ELSE IF ms.reqs[r].model_size # ms.model_size
                  THEN LET m2 == load_whisper_model(
                                     [m1 EXCEPT !.model_size = ms.reqs[r].model_size], load_ok)
                       IN  IF load_ok
                           THEN [m2 EXCEPT !.reqs[r].pc = "inference",
                                           !.reqs[r].model = Some(m2.model)]
                           ELSE MsFail(m2, r)
                  ELSE [m1 EXCEPT !.reqs[r].pc = "inference",
                                  !.reqs[r].model = Some(m1.model)]
    /\ UNCHANGED <<main_vars, svc, call>>

\* microservice.py:186-224: the transcription returns and the answer is 200, or
\* it raises and the except clause answers 500
MsTranscribed(r, transcribe_ok) ==
    /\ r \in Requests
    /\ InFlight(ms, r)
    /\ ms' = IF transcribe_ok THEN MsAnswer(ms, r, 200) ELSE MsFail(ms, r)
    /\ UNCHANGED <<main_vars, svc, call>>

MsNext ==
    \/ \E filename \in MsFileNames, model_size \in ModelSizes : MsReceive(filename, model_size)
    \/ \E r \in Requests, save_ok \in BOOLEAN, load_ok \in BOOLEAN : MsSaved(r, save_ok, load_ok)
    \/ \E r \in Requests, transcribe_ok \in BOOLEAN : MsTranscribed(r, transcribe_ok)

---------------------------------------------------------------------------
(* _detect_pauses, service.py:199-287, as a function of what librosa gives: *)
(* the RMS energy of the frames, in thousandths.  Frame i (from 0) is at    *)
(* the time i * hop_length / sr; the unit of time here is half a hop, so    *)
(* that min_pause_duration (0.2 s, whatever the sample rate of the file is) *)
(* can fall on a frame time or between two.                                 *)

MaxFrames == 4          \* frames of one waveform
MaxMinPause == 3        \* min_pause_duration runs over 0..MaxMinPause half hops

energy_threshold == 5   \* pause_settings['energy_threshold'] = 0.005

RmsValues == {energy_threshold - 1, energy_threshold}

RECURSIVE SeqsUpTo(_, _)
SeqsUpTo(S, n) ==
    IF n = 0 THEN {<<>>}
    ELSE LET shorter == SeqsUpTo(S, n - 1)
         IN  shorter \cup {Append(q, x) : q \in {t \in shorter : Len(t) = n - 1}, x \in S}

\* librosa.frames_to_time for the frame with index i, counted from 0
frames_to_time(i) == 2 * i

\* service.py:248
is_pause(rms, k) == rms[k] < energy_threshold

Pause(start, end) == [start |-> start, end |-> end, duration |-> end - start]

\* a pause that is recorded whatever its length
KeepPause_NoTest(pauses, pause_start, time, min_pause_duration) ==
    Append(pauses, Pause(pause_start, time))

\* a pause that is recorded only when it is longer than the minimum
KeepPause_Strict(pauses, pause_start, time, min_pause_duration) ==
    IF time - pause_start > min_pause_duration
    THEN Append(pauses, Pause(pause_start, time)) ELSE pauses

\* service.py:260-267 and 273-279: the pause from pause_start to time is
\* recorded when it lasts at least min_pause_duration
KeepPause(pauses, pause_start, time, min_pause_duration) ==
    IF time - pause_start >= min_pause_duration
    THEN Append(pauses, Pause(pause_start, time)) ELSE pauses

\* the loop of service.py:254-269 from frame k (counted from 1) on; it gives
\* the pauses closed so far and the start of the pause still open
RECURSIVE PauseLoop(_, _, _, _, _)
PauseLoop(rms, min_pause_duration, k, pause_start, pauses) ==
    IF k > Len(rms) THEN [pause_start |-> pause_start, pauses |-> pauses]
    ELSE LET time == frames_to_time(k - 1)
         IN  IF is_pause(rms, k) /\ pause_start = None
             THEN PauseLoop(rms, min_pause_duration, k + 1, Some(time), pauses)
             ELSE IF ~is_pause(rms, k) /\ pause_start # None
             THEN PauseLoop(rms, min_pause_duration, k + 1, None,
                            KeepPause(pauses, pause_start[1], time, min_pause_duration))
             ELSE PauseLoop(rms, min_pause_duration, k + 1, pause_start, pauses)

\* the pause still open at the end of the waveform is forgotten
LastPause_Dropped(rms, min_pause_duration, loop) == loop.pauses

\* service.py:271-279: the pause still open at the end of the waveform is
\* closed at the time of the last frame
LastPause(rms, min_pause_duration, loop) ==
    IF loop.pause_start # None
    THEN KeepPause(loop.pauses, loop.pause_start[1], frames_to_time(Len(rms) - 1),
                   min_pause_duration)
    ELSE loop.pauses

\* _detect_pauses, service.py:199-287.  analysis_ok: librosa loaded and
\* analysed the file without raising.  The result is the list returned and
\* what the callback has received.
detect_pauses(rms, min_pause_duration, analysis_ok, log_callback) ==
    LET logs == pause_log(<<>>, log_callback, "INFO", <<"Analiziruem pauzy v audio...">>)
    IN  IF analysis_ok
        THEN [pauses |-> LastPause(rms, min_pause_duration,
                                   PauseLoop(rms, min_pause_duration, 1, None, <<>>)),
              logs |-> pause_log(logs, log_callback, "INFO", <<"Obnaruzheno pauz">>)]
        ELSE [pauses |-> <<>>,
              logs |-> pause_log(logs, log_callback, "WARNING", <<"Oshibka pri analize pauz">>)]

NoCall == [fn |-> "", pc |-> "none"]

\* a call of _detect_pauses and its return
CallDetectPauses(rms, min_pause_duration, analysis_ok, log_callback) ==
    /\ call = NoCall
    /\ call' = [fn |-> "detect_pauses", pc |-> "returned",
                rms |-> rms, min_pause_duration |-> min_pause_duration,
                analysis_ok |-> analysis_ok, log_callback |-> log_callback,
                result |-> detect_pauses(rms, min_pause_duration, analysis_ok, log_callback)]
    /\ UNCHANGED <<main_vars, svc, ms>>

(* _create_simple_word_alignment on the segments of a transcription *)

MaxTextLen == 3         \* characters of a segment's text
MaxTime == 2            \* segment times run over the seconds 0..MaxTime

TextChars == {"a", "_", " ", "!"}

\* the results of model.transcribe the function is applied to: no segment, one
\* segment (its end may come before its start), or two segments
AlignInputs ==
    {<<>>}
    \cup {<<Segment(text, start, end)>> :
              text \in SeqsUpTo(TextChars, MaxTextLen), start \in 0..MaxTime, end \in 0..MaxTime}
    \cup {<<Segment(text, 0, 1), Segment(<<"a", "!">>, 1, MaxTime)>> :
              text \in {<<>>, <<" ">>, <<"a">>}}
    \cup {<<Segment(<<"a", "!">>, 0, 1), Segment(text, 1, MaxTime)>> :
              text \in {<<>>, <<" ">>}}

\* a call of _create_simple_word_alignment and its return
CallCreateSimpleWordAlignment(segments) ==
    /\ call = NoCall
    /\ call' = [fn |-> "create_simple_word_alignment", pc |-> "returned",
                segments |-> segments,
                result |-> create_simple_word_alignment(segments)]
    /\ UNCHANGED <<main_vars, svc, ms>>

(* _format_transcription_result, service.py:485-605.  A text is the list of *)
(* its lines ("\n".join(lines)); a line is a record of its kind and of the *)
(* values formatted into it.  Word and segment times are seconds, as       *)
(* fractions; pause times are whole seconds.                               *)

\* the nearest integer to n / d (d > 0), a tie going to the even one
RoundHalfEven(n, d) ==
    LET q == n \div d
        r == n % d
    IN  IF 2 * r < d THEN q
        ELSE IF 2 * r > d THEN q + 1
        ELSE IF q % 2 = 0 THEN q ELSE q + 1

\* f"{x:.2f}": x in hundredths
TwoDecimals(x) == RoundHalfEven(100 * x.num, x.den)

\* _format_time, service.py:607-621: f"{minutes:02d}:{secs:05.2f}"
format_time(seconds) ==
    LET minutes == (seconds.num \div seconds.den) \div 60
        secs == Frac(seconds.num - 60 * minutes * seconds.den, seconds.den)
    IN  [minutes |-> minutes, secs |-> TwoDecimals(secs)]

TextLine(text) == [kind |-> "text", text |-> text]

\* " ".join(texts)
RECURSIVE JoinSpace(_)
JoinSpace(texts) ==
    IF texts = <<>> THEN <<>>
    ELSE IF Len(texts) = 1 THEN texts[1]
    ELSE texts[1] \o <<" ">> \o JoinSpace(Tail(texts))

\* the joined text as it is, without the strip() that follows the join
FullText_Unstripped(segments) ==
    JoinSpace([i \in 1..Len(segments) |-> Strip(segments[i].text)])

\* service.py:525-528
FullText(segments) ==
    Strip(JoinSpace([i \in 1..Len(segments) |-> Strip(segments[i].text)]))

\* service.py:514-519 and 540-545
Metadata(filename, model_size, now) ==
    << TextLine(<<"Fayl: ">> \o filename),
       TextLine(<<"Model: ", model_size>>),
       TextLine(<<"Ustroystvo: ", "cpu">>),
       TextLine(<<"Yazyk: ", "ru">>),
       [kind |-> "processing_time", now |-> now] >>

\* service.py:508-530
SimpleLines(segments, filename, model_size, now) ==
    << TextLine(<<"TRANSKRIPCIYA VIDEO">>),
       TextLine(<<"==================================================">>),
       TextLine(<<>>) >>
    \o Metadata(filename, model_size, now)
    \o << TextLine(<<>>),
          TextLine(<<"POLNYY TEKST:">>),
          TextLine(<<"--------------------">>),
          TextLine(FullText(segments)) >>

\* service.py:552-557
PauseLine(i, pause) ==
    [kind |-> "pause", number |-> i,
     start |-> format_time(Frac(pause.start, 1)), end |-> format_time(Frac(pause.end, 1)),
     duration |-> TwoDecimals(Frac(pause.duration, 1))]

\* service.py:548-559: the list of the pauses, when there is one
PauseLines(pauses) ==
    IF pauses = <<>> THEN <<>>
    ELSE << TextLine(<<"OBNARUZHENNYE PAUZY:">>),
            TextLine(<<"------------------------------">>) >>
         \o [i \in 1..Len(pauses) |-> PauseLine(i, pauses[i])]
         \o << TextLine(<<>>) >>

\* segment.get('words', [])
GetWords(segment) == IF segment.words = None THEN <<>> ELSE segment.words[1]

\* service.py:574-579
WordLine(word_info) ==
    [kind |-> "word", start |-> format_time(word_info.start),
     end |-> format_time(word_info.end), word |-> Strip(word_info.word)]

\* service.py:571-579: the words of the segments, segment after segment
RECURSIVE WordLines(_)
WordLines(segments) ==
    IF segments = <<>> THEN <<>>
    ELSE [k \in 1..Len(GetWords(segments[1])) |-> WordLine(GetWords(segments[1])[k])]
         \o WordLines(Tail(segments))

\* service.py:588-593
SegmentLine(segment) ==
    [kind |-> "segment", start |-> format_time(Frac(segment.start, 1)),
     end |-> format_time(Frac(segment.end, 1)), text |-> Strip(segment.text)]

\* service.py:562-595: the words when a segment has some, the segments otherwise
Breakdown(segments) ==
    IF \E i \in 1..Len(segments) : GetWords(segments[i]) # <<>>
    THEN << TextLine(<<"DETALNAYA RAZBIVKA PO SLOVAM:">>),
            TextLine(<<"----------------------------------------">>) >>
         \o WordLines(segments)
         \o << TextLine(<<>>) >>
    ELSE IF segments # <<>>
    THEN << TextLine(<<"SEGMENTY:">>),
            TextLine(<<"--------------------">>) >>
         \o [i \in 1..Len(segments) |-> SegmentLine(segments[i])]
         \o << TextLine(<<>>) >>
    ELSE <<>>

\* a detailed text with the words before the pauses
DetailedLines_WordsFirst(segments, pauses, filename, model_size, now) ==
    << TextLine(<<"TRANSKRIPCIYA VIDEO (DETALNAYA)">>),
       TextLine(<<"==================================================">>),
       TextLine(<<>>) >>
    \o Metadata(filename, model_size, now)
    \o << [kind |-> "pause_count", count |-> Len(pauses)],
          TextLine(<<>>) >>
    \o Breakdown(segments)
    \o PauseLines(pauses)
    \o << TextLine(<<"POLNYY TEKST:">>),
          TextLine(<<"--------------------">>),
          TextLine(FullText(segments)) >>

\* service.py:533-600
DetailedLines(segments, pauses, filename, model_size, now) ==
    << TextLine(<<"TRANSKRIPCIYA VIDEO (DETALNAYA)">>),
       TextLine(<<"==================================================">>),
       TextLine(<<>>) >>
    \o Metadata(filename, model_size, now)
    \o << [kind |-> "pause_count", count |-> Len(pauses)],
          TextLine(<<>>) >>
    \o PauseLines(pauses)
    \o Breakdown(segments)
    \o << TextLine(<<"POLNYY TEKST:">>),
          TextLine(<<"--------------------">>),
          TextLine(FullText(segments)) >>

\* _format_transcription_result, service.py:485-605
format_transcription_result(segments, pauses, filename, model_size, now) ==
    [simple_text |-> SimpleLines(segments, filename, model_size, now),
     detailed_text |-> DetailedLines(segments, pauses, filename, model_size, now)]

\* the results of model.transcribe that are formatted: no segment, one
\* segment, or two segments of which either may have no token
FormatAsr ==
    {<<>>}
    \cup {<<Segment(text, 0, MaxTime)>> : text \in SeqsUpTo(TextChars, MaxTextLen)}
    \cup {<<Segment(t1, 0, 1), Segment(t2, 1, MaxTime)>> :
              t1 \in {<<>>, <<" ">>, <<"a">>, <<"a", " ">>},
              t2 \in {<<>>, <<" ">>, <<"a", "!">>}}

\* whisper_result at service.py:392: the segments as the aligner, the
\* synthetic alignment, or neither (no token in any segment) left them
FormatSegments ==
    FormatAsr
    \cup {create_simple_word_alignment(segments) : segments \in FormatAsr}
    \cup {WhisperxAlign(segments) : segments \in FormatAsr}

\* pauses at service.py:392: what _detect_pauses returned, in whole seconds
FormatPauses ==
    { <<>>, <<Pause(0, 1)>>, <<Pause(1, MaxTime)>>,
      <<Pause(0, 1), Pause(MaxTime, MaxTime + 1)>> }

\* a call of _format_transcription_result and its return
CallFormatTranscriptionResult(segments, pauses, filename, model_size) ==
    /\ call = NoCall
    /\ call' = [fn |-> "format_transcription_result", pc |-> "returned",
                segments |-> segments, pauses |-> pauses,
                result |-> format_transcription_result(segments, pauses, filename,
                                                       model_size, clock)]
    /\ UNCHANGED <<main_vars, svc, ms>>

FnNext ==
    \/ \E rms \in SeqsUpTo(RmsValues, MaxFrames) \ {<<>>}, min_pause_duration \in 0..MaxMinPause,
          analysis_ok \in BOOLEAN, log_callback \in BOOLEAN :
            CallDetectPauses(rms, min_pause_duration, analysis_ok, log_callback)
    \/ \E segments \in AlignInputs : CallCreateSimpleWordAlignment(segments)
    \/ \E segments \in FormatSegments, pauses \in FormatPauses, model_size \in ModelSizes :
            CallFormatTranscriptionResult(segments, pauses, <<"a", ".wav">>, model_size)

---------------------------------------------------------------------------
(* The two read endpoints of main.py as requests: the handler runs without *)
(* an await, call holds its answer until the answer has been sent.         *)

FileTypes == {"simple", "detailed", "audio", "video"}

\* the ids a client can ask about: those it was given, and one it never was
UnknownId == MakeTaskId(0, <<"x", ".wav">>)

QueryIds == {bg[e].task_id : e \in Executions} \cup {UnknownId}

\* task_status.get(key)
Get(d, key) == IF key \in DOMAIN d THEN d[key] ELSE None

HttpError(status_code, detail) ==
    [status_code |-> status_code, detail |-> detail, file |-> None]

\* a download endpoint that serves whatever file the record names, whatever its status
download_result_AnyStatus(task_id, file_type, on_disk) ==
    IF task_id \notin DOMAIN task_statuses
    THEN HttpError(404, "Zadacha ne naydena")
    ELSE LET task_status == task_statuses[task_id]
         IN  IF file_type \notin {"simple", "detailed", "audio"}
             THEN HttpError(400, "Nevernyy tip fayla")
             ELSE LET result_file == Get(task_status, file_type \o "_file")
                  IN  IF result_file = None \/ result_file[1] \notin on_disk
                      THEN HttpError(404, "Fayl rezultata ne nayden")
                      ELSE [status_code |-> 200, detail |-> "", file |-> result_file]

\* GET /download/{task_id}/{file_type}, main.py:462-502; on_disk is the set of
\* files for which Path(result_file).exists()
download_result(task_id, file_type, on_disk) ==
    IF task_id \notin DOMAIN task_statuses
    THEN HttpError(404, "Zadacha ne naydena")
    ELSE LET task_status == task_statuses[task_id]
         IN  IF task_status.status # "completed"
             THEN HttpError(400, "Zadacha eshche ne zavershena")
             ELSE IF file_type \notin {"simple", "detailed", "audio"}
             THEN HttpError(400, "Nevernyy tip fayla")
             ELSE LET result_file == Get(task_status, file_type \o "_file")
                  IN  IF result_file = None \/ result_file[1] \notin on_disk
                      THEN HttpError(404, "Fayl rezultata ne nayden")
                      ELSE [status_code |-> 200, detail |-> "", file |-> result_file]

\* a status request and its answer
GetTaskStatus(task_id) ==
    /\ call = NoCall
    /\ call' = [fn |-> "get_task_status", pc |-> "answered", task_id |-> task_id,
                response |-> get_task_status(task_id)]
    /\ UNCHANGED <<main_vars, svc, ms>>

\* a download request and its answer; the audio file is the converter's, and
\* exists or not (audio_on_disk)
DownloadResult(task_id, file_type, audio_on_disk) ==
    /\ call = NoCall
    /\ LET on_disk == output_dir \cup
                        (IF audio_on_disk THEN {OutputFile(task_id, "audio")} ELSE {})
       IN  call' = [fn |-> "download_result", pc |-> "answered", task_id |-> task_id,
                    file_type |-> file_type, on_disk |-> on_disk,
                    response |-> download_result(task_id, file_type, on_disk)]
    /\ UNCHANGED <<main_vars, svc, ms>>

\* the answer has been sent
Respond ==
    /\ call.fn \in {"get_task_status", "download_result"}
    /\ call' = NoCall
    /\ UNCHANGED <<main_vars, svc, ms>>

Features == {"transcription", "video-to-audio", "summary"}

IoOutcomes == {"ok", "open_fails", "write_fails"}

Init ==
    /\ clock = 0
    /\ starlette_str \in BOOLEAN
    /\ task_statuses = EmptyDict
    /\ upload_dir = EmptyDict
    /\ output_dir = {}
    /\ bg = <<>>
    /\ svc = SvcIdle
    /\ ms = MsIdle
    /\ call = NoCall

Next ==
    \/ Tick
    \/ \E filename \in RawNames, feature \in Features, save_ok \in BOOLEAN :
            process_file(filename, feature, save_ok)
    \/ \E e \in Executions : TranscriptionTaskStart(e)
    \/ \E e \in Executions, x \in TranscriptionExchanges :
            TranscriptionResponse(e, x)
    \/ \E e \in Executions, io \in IoOutcomes :
            PersistSimple(e, io)
    \/ \E e \in Executions, io \in IoOutcomes :
            PersistDetailed(e, io)
    \/ \E e \in Executions : VideoTaskStart(e)
    \/ \E e \in Executions, x \in ConverterExchanges :
            VideoResponse(e, x)

Spec == Init /\ [][Next]_vars

SvcSpec == Init /\ [][SvcNext]_vars

MsSpec == Init /\ [][MsNext]_vars

FnSpec == Init /\ [][FnNext]_vars

\* main.py and a run of transcribe_file share no state: each on its own
MainOrSvcNext ==
    \/ svc = SvcIdle /\ Next
    \/ bg = <<>> /\ SvcNext

MainOrSvcSpec == Init /\ [][MainOrSvcNext]_vars

\* main.py with its read endpoints: a request is answered in one step of the
\* event loop, between two steps of the submissions and background tasks
ApiNext ==
    \/ call = NoCall /\ Next
    \/ \E task_id \in QueryIds : GetTaskStatus(task_id)
    \/ \E task_id \in QueryIds, file_type \in FileTypes :
         \E audio_on_disk \in (IF file_type = "audio" THEN BOOLEAN ELSE {FALSE}) :
            DownloadResult(task_id, file_type, audio_on_disk)
    \/ Respond

ApiSpec == Init /\ [][ApiNext]_vars

---------------------------------------------------------------------------
(* Fairness: a scheduled background task is run, and a call it waits for   *)
(* returns, raises or times out (httpx timeout 300 s, main.py:110).        *)

ExecutionStep(e) ==
    /\ e \in Executions
    /\ \/ TranscriptionTaskStart(e)
       \/ \E x \in TranscriptionExchanges :
              TranscriptionResponse(e, x)
       \/ \E io \in IoOutcomes : PersistSimple(e, io)
       \/ \E io \in IoOutcomes : PersistDetailed(e, io)
       \/ VideoTaskStart(e)
       \/ \E x \in ConverterExchanges : VideoResponse(e, x)

LiveSpec == Init /\ [][Next]_vars /\ \A e \in 1..MaxSubmissions : WF_vars(ExecutionStep(e))

---------------------------------------------------------------------------
(* Properties *)

Record(e) == task_statuses[bg[e].task_id]

HasRecord(e) == bg[e].task_id \in DOMAIN task_statuses

IsTranscription(e) == bg[e].feature = "transcription"

\* the step in which execution e handles an exception and ends
FailureStep(e) == bg[e].pc # "done" /\ bg'[e].pc = "done" /\ bg'[e].outcome = "failed"

IsPrefix(s, t) == Len(s) <= Len(t) /\ s = SubSeq(t, 1, Len(s))

IsSuffix(s, t) == Len(s) <= Len(t) /\ s = SubSeq(t, Len(t) - Len(s) + 1, Len(t))

NonDecreasing(s) == \A i \in 1..Len(s) - 1 : s[i] <= s[i + 1]

\* the step in which execution e ends, completed or failed
EndStep(e) == bg[e].pc # "done" /\ bg'[e].pc = "done"

SvcEnded(s) == s.pc \in {"returned", "raised"}

C11_SwitchSerializedWithInference ==
    [][ms'.loads # ms.loads => \A r \in Requests : ~InFlight(ms, r)]_vars

\* C1: once POST /process has answered with a task_id, GET /status/{task_id}
\* never answers 404.
C1_StatusKnownOnceReturned ==
    \A e \in Executions : get_task_status(bg[e].task_id).status_code # 404

\* C2 as claimed: the failure update leaves progress at the value of the last
\* checkpoint reached.
C2_ProgressKeptOnFailure ==
    [][\A e \in Executions :
          (FailureStep(e) /\ IsTranscription(e) /\ HasRecord(e))
              => task_statuses'[bg[e].task_id].progress = Record(e).progress]_vars

\* C2 amended: the failure update of a transcription job sets status failed and
\* puts progress back to 0, whatever checkpoint was reached before.
C2_FailureResetsProgress ==
    [][\A e \in Executions :
          (FailureStep(e) /\ IsTranscription(e))
              => /\ task_statuses'[bg[e].task_id].status = "failed"
                 /\ task_statuses'[bg[e].task_id].progress = 0]_vars

\* a transcription job that reached the checkpoint 10 and then failed: GET /status
\* answered 10, then 0
C2_Witness ==
    \E e \in Executions :
        /\ IsTranscription(e) /\ bg[e].outcome = "failed" /\ bg[e].seen = <<10, 0>>
        /\ Record(e).status = "failed" /\ Record(e).progress = 0

AllTokensTimed(segments) ==
    \A i \in 1..Len(segments) :
        LET words == FindTokens(Strip(segments[i].text))
        IN  words # <<>> =>
              /\ segments[i].words # None
              /\ Len(segments[i].words[1]) = Len(words)
              /\ \A k \in 1..Len(words) : segments[i].words[1][k].word = words[k]

AlignmentRaised == \E i \in 1..Len(svc.logger) : svc.logger[i].message = <<"Oshibka vyravnivaniya">>

\* C4: a run of transcribe_file in which ASR succeeded (checkpoint 75 was
\* reported) never ends by raising, whether the alignment model is absent,
\* succeeds or raises; when it is absent or raised, every segment with at least
\* one token carries the synthetic word timings once alignment is over.
C4_AlignmentFailureIsNotFatal ==
    /\ svc.pc = "raised" => \A i \in 1..Len(svc.progress) : svc.progress[i] < 75
    /\ (svc.pc \in {"format", "returned"} /\ (~svc.align_model \/ AlignmentRaised)) =>
          /\ svc.alignment = "synthetic"
          /\ AllTokensTimed(svc.segments)

\* the run returned although the alignment model raised, and its segment "hi!"
\* carries the two synthetic words
C4_Witness ==
    /\ svc.pc = "returned" /\ svc.align_model /\ AlignmentRaised
    /\ Len(svc.segments) = 2
    /\ svc.segments[1].words # None /\ Len(svc.segments[1].words[1]) = 2
    /\ svc.segments[2].words = None

\* C5: the task ids handed out by POST /process are pairwise distinct, so at
\* most one background execution creates or mutates the record of a task_id.
C5_TaskIdsDistinct ==
    \A e, f \in Executions : e # f => bg[e].task_id # bg[f].task_id

Checkpoints == <<10, 35, 40, 50, 75, 90, 100>>

\* C6: the progress callback is invoked with 10, 35, 40, 50, 75, 90, 100, each
\* once and in that order, in a run that returns; no run reports anything else.
C6_ProgressCheckpoints ==
    /\ IsPrefix(svc.progress, Checkpoints)
    /\ svc.pc = "returned" => svc.progress = Checkpoints

\* a run that returned, for a video input, after reporting every checkpoint
C6_Witness ==
    svc.pc = "returned" /\ svc.file_extension = ".mp4" /\ Len(svc.progress) = Len(Checkpoints)

\* C7: over the life of a transcription job that ends completed, the progress
\* values GET /status returns for its task_id never decrease and all belong to
\* {10, 35, 40, 50, 75, 90, 100}.
C7_ProgressMonotonic ==
    \A e \in Executions :
        (IsTranscription(e) /\ bg[e].outcome = "completed") =>
            /\ NonDecreasing(bg[e].seen)
            /\ \A i \in 1..Len(bg[e].seen) :
                    bg[e].seen[i] \in {Checkpoints[k] : k \in 1..Len(Checkpoints)}

Terminal(e) == HasRecord(e) /\ Record(e).status \in {"completed", "failed"}

\* C8: every accepted transcription submission eventually has a terminal status
\* (completed or failed), given that its background task is run and that the
\* microservice call comes to an end; no status other than processing,
\* completed and failed exists.
C8_EveryJobTerminates ==
    /\ \A e \in 1..MaxSubmissions :
           (e \in Executions /\ IsTranscription(e)) ~> (e \in Executions /\ Terminal(e))
    /\ [](\A t \in DOMAIN task_statuses :
              task_statuses[t].status \in {"processing", "completed", "failed"})

\* a transcription job that failed while its outputs were written is terminal
C8_Witness ==
    \E e \in Executions :
        /\ IsTranscription(e) /\ bg[e].pc = "done" /\ bg[e].cause_in = "task"
        /\ Record(e).status = "failed"

\* C9: a transcription job that ended failed has no artifacts: its record holds
\* no output file reference and the output directory holds no file of its
\* task_id.
C9_FailedJobHasNoArtifacts ==
    \A e \in Executions :
        (IsTranscription(e) /\ bg[e].outcome = "failed" /\ Record(e).status = "failed") =>
            /\ "simple_file" \notin DOMAIN Record(e)
            /\ "detailed_file" \notin DOMAIN Record(e)
            /\ \A f \in output_dir : f.task_id # bg[e].task_id

\* the task_id was given to transcription submissions only
TranscriptionOnly(t) == \A e \in Executions : bg[e].task_id = t => IsTranscription(e)

\* C10: in every state of a job record, failed implies a populated error,
\* completed implies progress 100, no error and both output file references,
\* processing implies no error.
C10_RecordWellFormed ==
    \A t \in DOMAIN task_statuses :
        TranscriptionOnly(t) =>
            LET r == task_statuses[t]
            IN  /\ r.status = "failed" => r.error # None
                /\ r.status = "processing" => r.error = None
                /\ r.status = "completed" =>
                      /\ r.progress = 100
                      /\ r.error = None
                      /\ "simple_file" \in DOMAIN r /\ r.simple_file # None
                      /\ "detailed_file" \in DOMAIN r /\ r.detailed_file # None

---------------------------------------------------------------------------
(* Pause detection *)

\* a call of _detect_pauses whose analysis did not raise has returned
DetectedPauses == call.fn = "detect_pauses" /\ call.analysis_ok

\* frames a..b (counted from 1) are a maximal run of silent frames
SilentRun(rms, a, b) ==
    /\ a <= b
    /\ \A k \in a..b : rms[k] < energy_threshold
    /\ a = 1 \/ rms[a - 1] >= energy_threshold
    /\ b = Len(rms) \/ rms[b + 1] >= energy_threshold

\* the number of returned intervals that go from start to end
Reported(pauses, start, end) ==
    Cardinality({k \in 1..Len(pauses) : pauses[k].start = start /\ pauses[k].end = end})

\* C13: every interval returned by pause detection has duration = end - start
\* >= min_pause_duration, and the intervals are in the order of their starts,
\* each starting at or after the end of the one before it.
C13_PausesLongEnoughAndDisjoint ==
    DetectedPauses =>
        LET pauses == call.result.pauses
        IN  /\ \A k \in 1..Len(pauses) :
                  /\ pauses[k].duration = pauses[k].end - pauses[k].start
                  /\ pauses[k].duration >= call.min_pause_duration
            /\ \A k \in 1..Len(pauses) - 1 :
                  /\ pauses[k].start <= pauses[k + 1].start
                  /\ pauses[k].end <= pauses[k + 1].start

\* two silent runs, each long enough: both are returned, in the order of their
\* starts
C13_Witness ==
    /\ DetectedPauses
    /\ call.rms = <<energy_threshold - 1, energy_threshold, energy_threshold - 1, energy_threshold - 1>>
    /\ call.min_pause_duration = 1
    /\ call.result.pauses = <<Pause(0, 2), Pause(4, 6)>>

\* C14: for every maximal run of silent frames that a non-silent frame
\* follows, the interval from the time of its first frame to the time of that
\* non-silent frame is returned exactly once when its length is >=
\* min_pause_duration and not at all otherwise; every returned interval starts
\* with a maximal silent run, and none covers the time of a non-silent frame.
C14_MaximalSilentRunsReported ==
    DetectedPauses =>
        LET pauses == call.result.pauses
            rms == call.rms
            T(k) == frames_to_time(k - 1)
        IN  /\ \A a \in 1..Len(rms), b \in 1..Len(rms) - 1 :
                  SilentRun(rms, a, b) =>
                      Reported(pauses, T(a), T(b + 1)) =
                          IF T(b + 1) - T(a) >= call.min_pause_duration THEN 1 ELSE 0
            /\ \A k \in 1..Len(pauses) :
                  /\ \E a \in 1..Len(rms), b \in 1..Len(rms) :
                         SilentRun(rms, a, b) /\ pauses[k].start = T(a)
                  /\ \A j \in 1..Len(rms) :
                         rms[j] >= energy_threshold =>
                             ~(pauses[k].start <= T(j) /\ T(j) < pauses[k].end)

\* a silent run of exactly min_pause_duration is returned (the boundary is
\* inclusive), next to a non-silent first frame
C14_Witness ==
    /\ DetectedPauses
    /\ call.rms = <<energy_threshold, energy_threshold - 1, energy_threshold>>
    /\ call.min_pause_duration = 2
    /\ call.result.pauses = <<Pause(2, 4)>>

\* C15: when the waveform ends silent, the open interval is closed at the time
\* of the last frame and kept iff (last frame time - start) >=
\* min_pause_duration; a waveform of silent frames only gives the one interval
\* from 0 to the last frame time when that length is >= min_pause_duration and
\* the empty list otherwise.
C15_LastPauseClosedAtLastFrame ==
    DetectedPauses =>
        LET pauses == call.result.pauses
            rms == call.rms
            n == Len(rms)
            T(k) == frames_to_time(k - 1)
        IN  /\ \A a \in 1..n :
                  SilentRun(rms, a, n) =>
                      Reported(pauses, T(a), T(n)) =
                          IF T(n) - T(a) >= call.min_pause_duration THEN 1 ELSE 0
            /\ (\A k \in 1..n : rms[k] < energy_threshold) =>
                  pauses = IF T(n) >= call.min_pause_duration
                           THEN <<Pause(0, T(n))>> ELSE <<>>

\* a waveform that ends silent: the last interval ends at the time of the last
\* frame
C15_Witness ==
    /\ DetectedPauses
    /\ call.rms = <<energy_threshold, energy_threshold - 1, energy_threshold - 1>>
    /\ call.min_pause_duration = 2
    /\ call.result.pauses = <<Pause(2, 4)>>

\* a WARNING has reached the callback or the module's logger
WarningLogged ==
    \/ \E i \in 1..Len(svc.logs) : svc.logs[i].level = "WARNING"
    \/ \E i \in 1..Len(svc.logger) : svc.logger[i].level = "WARNING"

\* C16: when loading or analysing the audio raises in _detect_pauses, the
\* function returns the empty list and raises nothing, a WARNING is logged, and
\* the run of transcribe_file goes on to the next stage (progress 40).
C16_PauseDetectionFailsClosed ==
    svc.pause_analysis = "raised" =>
        /\ svc.pauses = <<>>
        /\ IsPrefix(<<10, 35, 40>>, svc.progress)
        /\ WarningLogged

---------------------------------------------------------------------------
(* Synthetic alignment *)

\* a call of _create_simple_word_alignment has returned
Aligned == call.fn = "create_simple_word_alignment"

\* the segments of the call, by their number
AlignedSegments == IF Aligned THEN 1..Len(call.segments) ELSE {}

\* the text has a character that is not a space
HasToken(text) == \E k \in 1..Len(text) : text[k] \notin SpaceChars

\* the word list segment i has received, empty when it has none
WordsOf(i) == IF call.result[i].words = None THEN <<>> ELSE call.result[i].words[1]

FracEq(a, b) == a.num * b.den = b.num * a.den

FracLe(a, b) == a.num * b.den <= b.num * a.den

FracSub(a, b) == Frac(a.num * b.den - b.num * a.den, a.den * b.den)

Duration(w) == FracSub(w.end, w.start)

IsWordToken(word) == \A k \in 1..Len(word) : word[k] \in WordChars

RemoveSpaces(text) == SelectSeq(text, LAMBDA c : c \notin SpaceChars)

RECURSIVE ConcatWords(_)
ConcatWords(words) == IF words = <<>> THEN <<>> ELSE words[1].word \o ConcatWords(Tail(words))

\* the number of maximal word runs and of punctuation characters of the text
NumTokens(text) ==
    Cardinality({k \in 1..Len(text) :
                    \/ text[k] \notin WordChars /\ text[k] \notin SpaceChars
                    \/ text[k] \in WordChars /\ (k = 1 \/ text[k - 1] \notin WordChars)})

\* C17: for every segment with at least one token the words tile the segment:
\* the first word starts at segment.start, every later word starts where the
\* word before it ends, and the last word ends at segment.end.
C17_WordsTileSegment ==
    \A i \in AlignedSegments :
        HasToken(call.segments[i].text) =>
            LET words == WordsOf(i)
            IN  /\ words # <<>>
                /\ FracEq(words[1].start, Frac(call.segments[i].start, 1))
                /\ \A k \in 1..Len(words) - 1 : FracEq(words[k + 1].start, words[k].end)
                /\ FracEq(words[Len(words)].end, Frac(call.segments[i].end, 1))

\* "a a" over [1, 2]: the two words meet at 3/2
C17_Witness ==
    /\ Aligned
    /\ call.segments = <<Segment(<<"a", " ", "a">>, 1, 2)>>
    /\ WordsOf(1) = <<[word |-> <<"a">>, start |-> Frac(10, 10), end |-> Frac(15, 10)],
                      [word |-> <<"a">>, start |-> Frac(15, 10), end |-> Frac(20, 10)]>>

\* C18: for every segment with end >= start, the starts of its words do not
\* decrease along the tokens, and every word has end >= start.
C18_WordTimesMonotonic ==
    \A i \in AlignedSegments :
        call.segments[i].end >= call.segments[i].start =>
            LET words == WordsOf(i)
            IN  /\ \A k \in 1..Len(words) - 1 : FracLe(words[k].start, words[k + 1].start)
                /\ \A k \in 1..Len(words) : FracLe(words[k].start, words[k].end)

\* three tokens over [0, 2], with starts that increase
C18_Witness ==
    /\ Aligned
    /\ call.segments = <<Segment(<<"a", "!", "a">>, 0, 2)>>
    /\ Len(WordsOf(1)) = 3
    /\ ~FracLe(WordsOf(1)[2].start, WordsOf(1)[1].start)
    /\ ~FracLe(WordsOf(1)[3].start, WordsOf(1)[2].start)

\* C19: the tokens of a segment, concatenated in order, are the segment's text
\* without its whitespace; each token is a maximal run of word characters or a
\* single character that is neither a word character nor a space.
C19_TokensReconstructText ==
    \A i \in AlignedSegments :
        LET words == WordsOf(i)
            text == call.segments[i].text
        IN  /\ ConcatWords(words) = RemoveSpaces(text)
            /\ Len(words) = NumTokens(text)
            /\ \A k \in 1..Len(words) :
                  \/ IsWordToken(words[k].word)
                  \/ Len(words[k].word) = 1 /\ IsPunct(words[k].word[1])

\* "a !" gives the tokens a and !
C19_Witness ==
    /\ Aligned
    /\ call.segments = <<Segment(<<"a", " ", "!">>, 0, 1)>>
    /\ Len(WordsOf(1)) = 2
    /\ WordsOf(1)[1].word = <<"a">> /\ WordsOf(1)[2].word = <<"!">>

\* C20: the duration of a token is its nominal duration (5 tenths for a word,
\* 1 tenth for a punctuation mark) times segment duration / sum of the
\* segment's nominal durations: a word lasts five times as long as a
\* punctuation mark of the same segment, and the durations add up to the
\* segment's duration.
C20_DurationsProportional ==
    \A i \in AlignedSegments :
        LET words == WordsOf(i)
            total == call.segments[i].end - call.segments[i].start
            Nominal(k) == IF IsWordToken(words[k].word) THEN 5 ELSE 1
            Sum[n \in 0..Len(words)] == IF n = 0 THEN 0 ELSE Nominal(n) + Sum[n - 1]
        IN  words # <<>> =>
              /\ \A k \in 1..Len(words) :
                    FracEq(Duration(words[k]), Frac(Nominal(k) * total, Sum[Len(words)]))
              /\ \A j \in 1..Len(words), k \in 1..Len(words) :
                    (IsWordToken(words[j].word) /\ ~IsWordToken(words[k].word)) =>
                        LET dj == Duration(words[j])
                            dk == Duration(words[k])
                        IN  FracEq(dj, Frac(5 * dk.num, dk.den))
              /\ FracEq(FracSub(words[Len(words)].end, words[1].start), Frac(total, 1))

\* "a!" over [0, 1]: a lasts 5/6 and ! lasts 1/6 of the segment
C20_Witness ==
    /\ Aligned
    /\ call.segments = <<Segment(<<"a", "!">>, 0, 1)>>
    /\ WordsOf(1) = <<[word |-> <<"a">>, start |-> Frac(0, 6), end |-> Frac(5, 6)],
                      [word |-> <<"!">>, start |-> Frac(5, 6), end |-> Frac(6, 6)]>>

---------------------------------------------------------------------------
(* The job records of main.py *)

\* no two accepted submissions got the same task_id
DistinctIds ==
    \A e, f \in Executions : e # f => bg[e].task_id # bg[f].task_id

IsTerminal(r) == r.status \in {"completed", "failed"}

\* status, progress, message and error of r are those of t, and r's log
\* continues t's
SameButLogs(t, r) ==
    /\ r.status = t.status
    /\ r.progress = t.progress
    /\ r.message = t.message
    /\ r.error = t.error
    /\ IsPrefix(t.logs, r.logs)

\* C24: the record a background task stores when it starts has status
\* processing, progress 0, no log entry and no error, whether or not the
\* table already held a record under that task_id.
C24_NewRecordIsBlank ==
    \A e \in Executions :
        bg[e].created # None =>
            LET r == bg[e].created[1]
            IN  /\ r.status = "processing"
                /\ r.progress = 0
                /\ r.logs = <<>>
                /\ r.error = None

\* a task has stored its record over the terminal record of an earlier task
\* with the same task_id, and has moved on to its first checkpoint
C24_Witness ==
    \E e, f \in Executions :
        /\ e # f
        /\ bg[e].task_id = bg[f].task_id
        /\ bg[f].pc = "done"
        /\ Len(bg[f].terminal[1].logs) > 0
        /\ bg[e].pc = "awaiting"
        /\ bg[e].created # None
        /\ Record(e).progress = 10

\* C27: with distinct task ids, the record of a task that has ended carries
\* the status, progress, message and error its last update wrote, and that
\* status is completed or failed; the finally clause, and every later step of
\* any task, leaves these four fields alone and only appends to the logs.
C27_TerminalIsAbsorbing ==
    /\ [](\A e \in Executions :
            (DistinctIds /\ bg[e].pc = "done") =>
                /\ IsTerminal(bg[e].terminal[1])
                /\ SameButLogs(bg[e].terminal[1], Record(e)))
    /\ [][\A t \in DOMAIN task_statuses :
            (DistinctIds /\ IsTerminal(task_statuses[t])) =>
                /\ t \in DOMAIN task_statuses'
                /\ SameButLogs(task_statuses[t], task_statuses'[t])]_vars

\* two tasks with distinct ids have ended, one completed and one failed; the
\* finally clause of the first has appended its log entry after the final
\* update, and the second ran to its end after that
C27_Witness ==
    /\ DistinctIds
    /\ \E e, f \in Executions :
        /\ bg[e].pc = "done" /\ bg[e].outcome = "completed"
        /\ bg[f].pc = "done" /\ bg[f].outcome = "failed"
        /\ Len(Record(e).logs) > Len(bg[e].terminal[1].logs)
        /\ Len(Record(f).logs) > Len(bg[f].terminal[1].logs)

\* another submission stored its upload under the same sanitized name and its
\* background task has not ended
Overlaps(e) ==
    \E f \in Executions :
        f # e /\ bg[f].file_path = bg[e].file_path /\ bg[f].pc # "done"

\* C28: when a background task opens its upload to send it to the
\* microservice, while another task with the same sanitized file name is in
\* flight, the file is there and is the one its own submission saved.
C28_UploadIntact ==
    [][\A e \in Executions :
          (bg[e].pc = "scheduled" /\ bg'[e].pc # "scheduled" /\ Overlaps(e)) =>
              /\ bg[e].file_path \in DOMAIN upload_dir
              /\ upload_dir[bg[e].file_path] = e]_vars

---------------------------------------------------------------------------
(* The read endpoints *)

StatusAnswered == call.fn = "get_task_status"

DownloadAnswered == call.fn = "download_result"

\* C23: a status request for a task_id under which no record was stored is
\* answered 404 with no record in the body, and the request leaves the task
\* table as it was (it stores nothing under that id).
C23_UnknownTaskIsNotFound ==
    /\ [](StatusAnswered /\ call.task_id \notin DOMAIN task_statuses =>
            /\ call.response.status_code = 404
            /\ call.response.body = EmptyDict)
    /\ [][StatusAnswered' => task_statuses' = task_statuses]_vars

\* the table holds records, and a status request for an id that has none (an
\* id nobody was given, or the id of a submission whose task has not started)
\* has been answered
C23_Witness ==
    /\ StatusAnswered
    /\ call.task_id \notin DOMAIN task_statuses
    /\ task_statuses # EmptyDict
    /\ \E e \in Executions : bg[e].pc = "done"

\* C25: no step removes a record from the task table, and a status request
\* for a task_id that has a record is answered 200 with that record.
C25_RecordsAreKept ==
    /\ [][DOMAIN task_statuses \subseteq DOMAIN task_statuses']_vars
    /\ [](StatusAnswered /\ call.task_id \in DOMAIN task_statuses =>
            /\ call.response.status_code = 200
            /\ call.response.body = task_statuses[call.task_id])

\* both submissions have run to their end, one completed and one failed, and
\* the record of the completed one is still returned
C25_Witness ==
    /\ StatusAnswered
    /\ call.response.status_code = 200
    /\ call.response.body.status = "completed"
    /\ Len(bg) = MaxSubmissions
    /\ \A e \in Executions : bg[e].pc = "done"
    /\ \E e \in Executions : bg[e].outcome = "failed"

\* the record names no file of this type, or the file it names is not on disk
ResultFileMissing(task_status, file_type, on_disk) ==
    \/ file_type \o "_file" \notin DOMAIN task_status
    \/ task_status[file_type \o "_file"] = None
    \/ task_status[file_type \o "_file"][1] \notin on_disk

\* C30: a download request is answered 404 for a task_id without a record,
\* 400 for a record whose status is not completed whatever the file type, and
\* on a completed record 400 for a file type other than simple, detailed and
\* audio and 404 when the result file is missing; a file is served only from
\* a completed record, and the request leaves the task table as it was.
C30_DownloadOnlyWhenCompleted ==
    /\ [](DownloadAnswered =>
            LET t == call.task_id
                r == call.response
            IN  IF t \notin DOMAIN task_statuses THEN r.status_code = 404
                ELSE IF task_statuses[t].status # "completed" THEN r.status_code = 400
                ELSE IF call.file_type \notin {"simple", "detailed", "audio"}
                THEN r.status_code = 400
                ELSE IF ResultFileMissing(task_statuses[t], call.file_type, call.on_disk)
                THEN r.status_code = 404
                ELSE r.status_code = 200 /\ r.file # None)
    /\ [][DownloadAnswered' => task_statuses' = task_statuses]_vars

\* a download from a failed record has been refused with 400 although the
\* file asked for is on disk (the failed task had written it)
C30_Witness ==
    /\ DownloadAnswered
    /\ call.response.status_code = 400
    /\ call.task_id \in DOMAIN task_statuses
    /\ task_statuses[call.task_id].status = "failed"
    /\ OutputFile(call.task_id, call.file_type) \in call.on_disk

---------------------------------------------------------------------------
(* The model held by the transcription microservice *)

\* C29: whatever requests were handled, and whether or not a model load
\* raised, model_size is the size of the model instance the service holds,
\* and a request that runs the transcription runs it on a model of the size
\* it asked for.
C29_ModelSizeNamesModel ==
    /\ ms.model_size = ms.model.size
    /\ \A r \in Requests :
         InFlight(ms, r) => ms.reqs[r].model[1].size = ms.reqs[r].model_size

---------------------------------------------------------------------------
(* Segments without tokens *)

\* C26: a segment whose text is empty or only whitespace comes back as it
\* was, without a word list; every other segment of the same result has its
\* word list, one word per token, and every time in it is a quotient by a
\* positive sum of durations.
C26_EmptySegmentSkipped ==
    \A i \in AlignedSegments :
        LET text == call.segments[i].text
        IN  /\ ~HasToken(text) => call.result[i] = call.segments[i]
            /\ HasToken(text) =>
                  /\ call.result[i].words # None
                  /\ Len(WordsOf(i)) = NumTokens(text)
                  /\ \A k \in 1..Len(WordsOf(i)) :
                        WordsOf(i)[k].start.den > 0 /\ WordsOf(i)[k].end.den > 0

\* a whitespace-only segment followed by "a!": the first has no word list,
\* the second has its two words
C26_Witness ==
    /\ Aligned
    /\ call.segments = <<Segment(<<" ">>, 0, 1), Segment(<<"a", "!">>, 1, MaxTime)>>
    /\ call.result[1].words = None
    /\ Len(WordsOf(2)) = 2

---------------------------------------------------------------------------
(* The formatted transcript *)

Formatted == call.fn = "format_transcription_result"

\* the word and pause entries of the detailed text, in the order of its lines
Entries ==
    SelectSeq(call.result.detailed_text, LAMBDA line : line.kind \in {"pause", "word"})

\* the start of an entry as it is printed, in hundredths of a second
StartOf(entry) == entry.start.minutes * 6000 + entry.start.secs

\* the word list of segment i of the call, empty when it has none
FormattedWords(i) ==
    IF call.segments[i].words = None THEN <<>> ELSE call.segments[i].words[1]

RECURSIVE WordsUpTo(_)
WordsUpTo(n) == IF n = 0 THEN 0 ELSE Len(FormattedWords(n)) + WordsUpTo(n - 1)

\* C21 as claimed: the word and pause entries of the detailed text are every
\* word of every segment and every pause, in one sequence sorted by start,
\* a word coming before a pause of the same start.
C21_TimelineMergedAndSorted ==
    Formatted =>
        /\ Len(Entries) = Len(call.pauses) + WordsUpTo(Len(call.segments))
        /\ \A i, j \in 1..Len(Entries) :
              i < j =>
                  /\ StartOf(Entries[i]) <= StartOf(Entries[j])
                  /\ StartOf(Entries[i]) = StartOf(Entries[j]) =>
                        ~(Entries[i].kind = "pause" /\ Entries[j].kind = "word")

\* C21 amended: the detailed text lists every pause, numbered, in the order
\* of the pause list, and after them every word of every segment, in segment
\* order and in the order of the segment's word list; the two lists are not
\* merged and neither is sorted.
C21_PausesThenWords ==
    Formatted =>
        LET n == Len(call.pauses)
        IN  /\ Len(Entries) = n + WordsUpTo(Len(call.segments))
            /\ \A k \in 1..n :
                  /\ Entries[k].kind = "pause"
                  /\ Entries[k].number = k
                  /\ Entries[k].start = format_time(Frac(call.pauses[k].start, 1))
                  /\ Entries[k].end = format_time(Frac(call.pauses[k].end, 1))
            /\ \A i \in 1..Len(call.segments) :
                  \A k \in 1..Len(FormattedWords(i)) :
                      LET entry == Entries[n + WordsUpTo(i - 1) + k]
                          word_info == FormattedWords(i)[k]
                      IN  /\ entry.kind = "word"
                          /\ entry.word = Strip(word_info.word)
                          /\ entry.start = format_time(word_info.start)
                          /\ entry.end = format_time(word_info.end)

\* "a" over [0, 1] and "a!" over [1, MaxTime], with the pauses [0, 1] and
\* [MaxTime, MaxTime + 1]: the second pause is listed before the three words,
\* which all start before it
C21_Witness ==
    /\ Formatted
    /\ call.pauses = <<Pause(0, 1), Pause(MaxTime, MaxTime + 1)>>
    /\ call.segments = create_simple_word_alignment(
                           <<Segment(<<"a">>, 0, 1), Segment(<<"a", "!">>, 1, MaxTime)>>)
    /\ Len(Entries) = 5
    /\ Entries[2].kind = "pause"
    /\ Entries[3].kind = "word"
    /\ StartOf(Entries[3]) < StartOf(Entries[2])

\* the last line of a text
LastLine(lines) == lines[Len(lines)]

StrippedTexts == [i \in 1..Len(call.segments) |-> Strip(call.segments[i].text)]

\* the texts without the empty ones at the beginning and at the end
RECURSIVE TrimEmpty(_)
TrimEmpty(texts) ==
    IF texts = <<>> THEN texts
    ELSE IF texts[1] = <<>> THEN TrimEmpty(Tail(texts))
    ELSE IF texts[Len(texts)] = <<>> THEN TrimEmpty(SubSeq(texts, 1, Len(texts) - 1))
    ELSE texts

\* C22 as claimed: the plain text of both files is the stripped texts of the
\* segments joined with one space, in segment order.
C22_TextIsJoinOfStripped ==
    Formatted =>
        /\ LastLine(call.result.simple_text) = TextLine(JoinSpace(StrippedTexts))
        /\ LastLine(call.result.detailed_text) = TextLine(JoinSpace(StrippedTexts))

\* C22 amended: the plain text of both files is the stripped texts of the
\* segments joined with one space, in segment order, without the spaces that
\* segments with an empty stripped text leave at the beginning and at the end
\* of the joined string; the pauses and the word lists have no part in it.
C22_TextIsStrippedJoin ==
    Formatted =>
        /\ LastLine(call.result.simple_text) = TextLine(JoinSpace(TrimEmpty(StrippedTexts)))
        /\ LastLine(call.result.detailed_text) = TextLine(JoinSpace(TrimEmpty(StrippedTexts)))

\* a whitespace-only segment before "a!", with a pause and word timings: the
\* text is "a!", without the space the join puts before it
C22_Witness ==
    /\ Formatted
    /\ call.pauses # <<>>
    /\ call.segments = create_simple_word_alignment(
                           <<Segment(<<" ">>, 0, 1), Segment(<<"a", "!">>, 1, MaxTime)>>)
    /\ LastLine(call.result.simple_text).text = <<"a", "!">>
    /\ JoinSpace(StrippedTexts) = <<" ", "a", "!">>

====
